---- MODULE Spec2Model ----
(***************************************************************************)
(* Model of the order/bot scheduling engine of useOrderSystem (reducer     *)
(* version): the reducer state, the timer map kept in a ref, the timer     *)
(* synchronisation effect and the three action creators.                   *)
(*                                                                         *)
(* Orders and bots are records; Bot.currentOrder is modelled by the id of  *)
(* the order it copies (NoOrder for null). Time is relative: a timer is    *)
(* the delay that remains until it is due, and a Date, which the hook      *)
(* writes and never reads, is SomeDate (NoDate for undefined).             *)
(***************************************************************************)
EXTENDS Integers, Sequences, FiniteSets, TLC

PROCESSING_TIME == 10000

\* Bounds of the exploration: orders submitted, bots ever added, bots in the
\* list at a time, and the longest step of the clock.
MaxOrders == 2
MaxBots == 4
MaxPool == 2
TickStep == 5000

NoOrder == 0
NoDate == "undefined"
SomeDate == "Date"

VARIABLES
    state,          \* reducer state: orders, bots, orderIdCounter, botIdCounter
    timerMap,       \* timerMapRef.current: bot id -> live timer (order id, remaining delay)
    renderedBots,   \* state.bots of the last committed render (closure of removeBot)
    needsRender,    \* a dispatch changed the state since the last commit
    botsChanged,    \* state.bots is a new array since the last commit
    last,           \* history: the step taken last and the bindings it made
    nSubmitted,     \* history: number of addOrder calls so far
    nBotsAdded,     \* history: number of addBot calls so far
    removedIds,     \* history: identifiers of the bots removed so far
    assignedFor     \* history: <<bot id, order id>> of each PROCESSING bot ->
                    \* time elapsed since the order was bound to the bot

vars == <<state, timerMap, renderedBots, needsRender, botsChanged, last,
          nSubmitted, nBotsAdded, removedIds, assignedFor>>

OrderTypes == {"NORMAL", "VIP"}

Min(a, b) == IF a < b THEN a ELSE b

SetMin(S) == CHOOSE x \in S : \A y \in S : x <= y

----------------------------------------------------------------------------
(* Pure helper functions                                                   *)

\* orders.reduce(...) of insertOrderByPriority, as a 1-based index (0 for -1):
\* the index of the last VIP order that is PENDING or PROCESSING.
RECURSIVE lastVipIndexFrom(_, _, _)
lastVipIndexFrom(orders, idx, lastIdx) ==
    IF idx > Len(orders) THEN lastIdx
    ELSE IF orders[idx].type = "VIP"
            /\ (orders[idx].status = "PENDING" \/ orders[idx].status = "PROCESSING")
         THEN lastVipIndexFrom(orders, idx + 1, idx)
         ELSE lastVipIndexFrom(orders, idx + 1, lastIdx)

\* Variant of lastVipIndex that anchors on PENDING VIP orders only.
lastVipIndex_PendingOnly(orders) ==
    LET S == {i \in 1..Len(orders) :
                 orders[i].type = "VIP" /\ orders[i].status = "PENDING"}
    IN  IF S = {} THEN 0 ELSE CHOOSE i \in S : \A k \in S : k <= i


lastVipIndex(orders) == lastVipIndexFrom(orders, 1, 0)

\* Variant of insertOrderByPriority that appends every order, VIP or not.
insertOrderByPriority_Append(orders, newOrder) == Append(orders, newOrder)

\* Variant of insertOrderByPriority that places a NORMAL order after the last
\* order that is PENDING or PROCESSING instead of at the end.
insertOrderByPriority_AfterLive(orders, newOrder) ==
    LET S == {i \in 1..Len(orders) : orders[i].status # "COMPLETE"}
        at == IF newOrder.type = "VIP" THEN lastVipIndex(orders)
              ELSE IF S = {} THEN 0 ELSE CHOOSE i \in S : \A k \in S : k <= i
    IN  SubSeq(orders, 1, at) \o <<newOrder>> \o SubSeq(orders, at + 1, Len(orders))

insertOrderByPriority(orders, newOrder) ==
    IF newOrder.type = "VIP"
    THEN SubSeq(orders, 1, lastVipIndex(orders))
            \o <<newOrder>>
            \o SubSeq(orders, lastVipIndex(orders) + 1, Len(orders))
    ELSE Append(orders, newOrder)

\* Array.prototype.find: index of the first element satisfying the test, 0 if none.
findNextPendingOrder(orders) ==
    IF \E i \in 1..Len(orders) : orders[i].status = "PENDING"
    THEN SetMin({i \in 1..Len(orders) : orders[i].status = "PENDING"})
    ELSE 0

\* Variant of findIdleBot that takes the last IDLE bot of the list.
findIdleBot_Last(bots) ==
    LET S == {i \in 1..Len(bots) : bots[i].status = "IDLE"}
    IN  IF S = {} THEN 0 ELSE CHOOSE i \in S : \A k \in S : k <= i

findIdleBot(bots) ==
    IF \E i \in 1..Len(bots) : bots[i].status = "IDLE"
    THEN SetMin({i \in 1..Len(bots) : bots[i].status = "IDLE"})
    ELSE 0

\* Variant of autoAssignOrders that makes one binding at most.
autoAssignOrders_Once(s) ==
    LET idleBot == findIdleBot(s.bots)
        pendingOrder == findNextPendingOrder(s.orders)
    IN  IF idleBot = 0 \/ pendingOrder = 0 THEN s
        ELSE [s EXCEPT !.orders[pendingOrder].status = "PROCESSING",
                       !.bots[idleBot].status = "PROCESSING",
                       !.bots[idleBot].currentOrder = s.orders[pendingOrder].id]

\* One iteration of the while loop of autoAssignOrders, then the rest of the loop.
RECURSIVE autoAssignOrders(_)
autoAssignOrders(s) ==
    LET idleBot == findIdleBot(s.bots)
        pendingOrder == findNextPendingOrder(s.orders)
    IN  IF idleBot = 0 \/ pendingOrder = 0 THEN s
        ELSE LET pendingId == s.orders[pendingOrder].id
                 idleId == s.bots[idleBot].id
                 updatedOrders ==
                     [i \in 1..Len(s.orders) |->
                         IF s.orders[i].id = pendingId
                         THEN [s.orders[i] EXCEPT !.status = "PROCESSING"]
                         ELSE s.orders[i]]
                 updatedBots ==
                     [i \in 1..Len(s.bots) |->
                         IF s.bots[i].id = idleId
                         THEN [s.bots[i] EXCEPT !.status = "PROCESSING",
                                                !.currentOrder = pendingId]
                         ELSE s.bots[i]]
             IN  autoAssignOrders([s EXCEPT !.orders = updatedOrders,
                                            !.bots = updatedBots])

----------------------------------------------------------------------------
(* Reducer                                                                 *)

\* Variant of reduceAddOrder that leaves the assignment to a later step.
reduceAddOrder_Deferred(s, orderType) ==
    LET newOrder == [id |-> s.orderIdCounter, type |-> orderType,
                     status |-> "PENDING", createdAt |-> SomeDate,
                     completedAt |-> NoDate]
    IN  [s EXCEPT
            !.orders = insertOrderByPriority(s.orders, newOrder),
            !.orderIdCounter = s.orderIdCounter + 1]

\* Variant of reduceAddOrder that leaves orderIdCounter as it is.
reduceAddOrder_NoIncrement(s, orderType) ==
    LET newOrder == [id |-> s.orderIdCounter, type |-> orderType,
                     status |-> "PENDING", createdAt |-> SomeDate,
                     completedAt |-> NoDate]
    IN  autoAssignOrders([s EXCEPT
            !.orders = insertOrderByPriority(s.orders, newOrder)])

\* Variant of reduceAddOrder in which a VIP order that finds no IDLE bot
\* frees the last PROCESSING bot and returns its order to PENDING.
reduceAddOrder_Preempts(s, orderType) ==
    LET newOrder == [id |-> s.orderIdCounter, type |-> orderType,
                     status |-> "PENDING", createdAt |-> SomeDate,
                     completedAt |-> NoDate]
        base == [s EXCEPT
                    !.orders = insertOrderByPriority(s.orders, newOrder),
                    !.orderIdCounter = s.orderIdCounter + 1]
        busy == {i \in 1..Len(s.bots) : s.bots[i].status = "PROCESSING"}
        victim == CHOOSE i \in busy : \A k \in busy : k <= i
    IN  IF orderType = "VIP" /\ findIdleBot(s.bots) = 0 /\ busy # {}
        THEN autoAssignOrders([base EXCEPT
                !.bots[victim].status = "IDLE",
                !.bots[victim].currentOrder = NoOrder,
                !.orders = [i \in 1..Len(base.orders) |->
                               IF base.orders[i].id = s.bots[victim].currentOrder
                               THEN [base.orders[i] EXCEPT !.status = "PENDING"]
                               ELSE base.orders[i]]])
        ELSE autoAssignOrders(base)

reduceAddOrder(s, orderType) ==
    LET newOrder == [id |-> s.orderIdCounter, type |-> orderType,
                     status |-> "PENDING", createdAt |-> SomeDate,
                     completedAt |-> NoDate]
    IN  autoAssignOrders([s EXCEPT
            !.orders = insertOrderByPriority(s.orders, newOrder),
            !.orderIdCounter = s.orderIdCounter + 1])

\* Variant of reduceAddBot that numbers the new bot by the length of the list.
reduceAddBot_LengthId(s) ==
    LET newBot == [id |-> Len(s.bots) + 1, status |-> "IDLE",
                   currentOrder |-> NoOrder]
    IN  autoAssignOrders([s EXCEPT
            !.bots = Append(s.bots, newBot),
            !.botIdCounter = s.botIdCounter + 1])

reduceAddBot(s) ==
    LET newBot == [id |-> s.botIdCounter, status |-> "IDLE",
                   currentOrder |-> NoOrder]
    IN  autoAssignOrders([s EXCEPT
            !.bots = Append(s.bots, newBot),
            !.botIdCounter = s.botIdCounter + 1])

\* Variant of reduceRemoveBot that removes the oldest bot.
reduceRemoveBot_Oldest(s) ==
    IF Len(s.bots) = 0 THEN s
    ELSE LET botToRemove == s.bots[1]
             updatedOrders ==
                 IF botToRemove.currentOrder # NoOrder
                 THEN [i \in 1..Len(s.orders) |->
                          IF s.orders[i].id = botToRemove.currentOrder
                          THEN [s.orders[i] EXCEPT !.status = "PENDING"]
                          ELSE s.orders[i]]
                 ELSE s.orders
         IN  [s EXCEPT !.orders = updatedOrders,
                       !.bots = SubSeq(s.bots, 2, Len(s.bots))]

\* Variant of reduceRemoveBot that runs the assignment loop on its result.
reduceRemoveBot_Reassigns(s) ==
    IF Len(s.bots) = 0 THEN s
    ELSE LET botToRemove == s.bots[Len(s.bots)]
             updatedOrders ==
                 IF botToRemove.currentOrder # NoOrder
                 THEN [i \in 1..Len(s.orders) |->
                          IF s.orders[i].id = botToRemove.currentOrder
                          THEN [s.orders[i] EXCEPT !.status = "PENDING"]
                          ELSE s.orders[i]]
                 ELSE s.orders
         IN  autoAssignOrders([s EXCEPT !.orders = updatedOrders,
                       !.bots = SubSeq(s.bots, 1, Len(s.bots) - 1)])

\* Variant of reduceRemoveBot that returns the initial state when there is
\* no bot.
reduceRemoveBot_ResetsWhenEmpty(s) ==
    IF Len(s.bots) = 0 THEN [orders |-> <<>>, bots |-> <<>>,
                               orderIdCounter |-> 1, botIdCounter |-> 1]
    ELSE LET botToRemove == s.bots[Len(s.bots)]
             updatedOrders ==
                 IF botToRemove.currentOrder # NoOrder
                 THEN [i \in 1..Len(s.orders) |->
                          IF s.orders[i].id = botToRemove.currentOrder
                          THEN [s.orders[i] EXCEPT !.status = "PENDING"]
                          ELSE s.orders[i]]
                 ELSE s.orders
         IN  [s EXCEPT !.orders = updatedOrders,
                       !.bots = SubSeq(s.bots, 1, Len(s.bots) - 1)]

\* Variant of reduceRemoveBot that takes the order of the removed bot out of
\* the sequence and inserts it again by priority.
reduceRemoveBot_Reinserts(s) ==
    IF Len(s.bots) = 0 THEN s
    ELSE LET botToRemove == s.bots[Len(s.bots)]
             held == SelectSeq(s.orders,
                               LAMBDA o : o.id = botToRemove.currentOrder)
             rest == SelectSeq(s.orders,
                               LAMBDA o : o.id # botToRemove.currentOrder)
             updatedOrders ==
                 IF Len(held) > 0
                 THEN insertOrderByPriority(rest,
                                            [held[1] EXCEPT !.status = "PENDING"])
                 ELSE s.orders
         IN  [s EXCEPT !.orders = updatedOrders,
                       !.bots = SubSeq(s.bots, 1, Len(s.bots) - 1)]

reduceRemoveBot(s) ==
    IF Len(s.bots) = 0 THEN s
    ELSE LET botToRemove == s.bots[Len(s.bots)]
             updatedOrders ==
                 IF botToRemove.currentOrder # NoOrder
                 THEN [i \in 1..Len(s.orders) |->
                          IF s.orders[i].id = botToRemove.currentOrder
                          THEN [s.orders[i] EXCEPT !.status = "PENDING"]
                          ELSE s.orders[i]]
                 ELSE s.orders
         IN  [s EXCEPT !.orders = updatedOrders,
                       !.bots = SubSeq(s.bots, 1, Len(s.bots) - 1)]

\* Variant of reduceCompleteOrder that leaves currentOrder of the bot set.
reduceCompleteOrder_KeepsCurrentOrder(s, orderId, botId) ==
    LET updatedOrders ==
            [i \in 1..Len(s.orders) |->
                IF s.orders[i].id = orderId
                THEN [s.orders[i] EXCEPT !.status = "COMPLETE",
                                         !.completedAt = SomeDate]
                ELSE s.orders[i]]
        updatedBots ==
            [i \in 1..Len(s.bots) |->
                IF s.bots[i].id = botId
                THEN [s.bots[i] EXCEPT !.status = "IDLE"]
                ELSE s.bots[i]]
    IN  autoAssignOrders([s EXCEPT !.orders = updatedOrders,
                                   !.bots = updatedBots])

\* Variant of reduceCompleteOrder that takes the completed order out of the
\* sequence.
reduceCompleteOrder_Deletes(s, orderId, botId) ==
    LET updatedBots ==
            [i \in 1..Len(s.bots) |->
                IF s.bots[i].id = botId
                THEN [s.bots[i] EXCEPT !.status = "IDLE",
                                       !.currentOrder = NoOrder]
                ELSE s.bots[i]]
    IN  autoAssignOrders([s EXCEPT
            !.orders = SelectSeq(s.orders, LAMBDA o : o.id # orderId),
            !.bots = updatedBots])

\* Variant of reduceCompleteOrder that frees every bot, not only botId.
reduceCompleteOrder_FreesAll(s, orderId, botId) ==
    LET updatedOrders ==
            [i \in 1..Len(s.orders) |->
                IF s.orders[i].id = orderId
                THEN [s.orders[i] EXCEPT !.status = "COMPLETE",
                                         !.completedAt = SomeDate]
                ELSE s.orders[i]]
        updatedBots ==
            [i \in 1..Len(s.bots) |->
                [s.bots[i] EXCEPT !.status = "IDLE", !.currentOrder = NoOrder]]
    IN  autoAssignOrders([s EXCEPT !.orders = updatedOrders,
                                   !.bots = updatedBots])

reduceCompleteOrder(s, orderId, botId) ==
    LET updatedOrders ==
            [i \in 1..Len(s.orders) |->
                IF s.orders[i].id = orderId
                THEN [s.orders[i] EXCEPT !.status = "COMPLETE",
                                         !.completedAt = SomeDate]
                ELSE s.orders[i]]
        updatedBots ==
            [i \in 1..Len(s.bots) |->
                IF s.bots[i].id = botId
                THEN [s.bots[i] EXCEPT !.status = "IDLE",
                                       !.currentOrder = NoOrder]
                ELSE s.bots[i]]
    IN  autoAssignOrders([s EXCEPT !.orders = updatedOrders,
                                   !.bots = updatedBots])

initialState ==
    [orders |-> <<>>, bots |-> <<>>, orderIdCounter |-> 1, botIdCounter |-> 1]

----------------------------------------------------------------------------
(* Timers                                                                  *)

\* clearProcessingTimer: clearTimeout and delete the entry, if there is one.
clearProcessingTimer(map, botId) ==
    [b \in DOMAIN map \ {botId} |-> map[b]]

\* startProcessingTimer: clear any existing timer of the bot, then set a new
\* one with delay PROCESSING_TIME.
startProcessingTimer(map, botId, orderId) ==
    [b \in DOMAIN clearProcessingTimer(map, botId) \cup {botId} |->
        IF b = botId THEN [orderId |-> orderId, remaining |-> PROCESSING_TIME]
        ELSE map[b]]

\* The timer synchronisation effect: state.bots.forEach from index idx on.
RECURSIVE syncTimersFrom(_, _, _)
syncTimersFrom(bots, idx, map) ==
    IF idx > Len(bots) THEN map
    ELSE LET bot == bots[idx]
             hasTimer == bot.id \in DOMAIN map
             next ==
                 IF bot.status = "PROCESSING" /\ bot.currentOrder # NoOrder
                 THEN IF ~hasTimer
                      THEN startProcessingTimer(map, bot.id, bot.currentOrder)
                      ELSE map
                 ELSE IF hasTimer THEN clearProcessingTimer(map, bot.id)
                      ELSE map
         IN  syncTimersFrom(bots, idx + 1, next)

syncTimers(bots, map) == syncTimersFrom(bots, 1, map)

----------------------------------------------------------------------------
(* State machine                                                           *)

NoStep == [op |-> "init", botId |-> 0, orderId |-> 0, stale |-> FALSE,
           bound |-> 0]

\* An elapsed time beyond PROCESSING_TIME is kept as Overdue.
Overdue == PROCESSING_TIME + 1

\* The bindings of s: the PROCESSING bots with the order each one holds.
assignments(s) ==
    {<<s.bots[i].id, s.bots[i].currentOrder>> :
        i \in {k \in 1..Len(s.bots) : s.bots[k].status = "PROCESSING"}}

\* The elapsed times after a dispatch that yields s: a binding made by the
\* dispatch starts at 0, a binding that s keeps goes on.
sinceBinding(s) ==
    [p \in assignments(s) |->
        IF p \in DOMAIN assignedFor THEN assignedFor[p] ELSE 0]

\* The number of bindings a dispatch that yields s has made: the iterations
\* of the loop of the assignment pass.
bindingsMade(s) == Cardinality(assignments(s) \ assignments(state))

Init ==
    /\ state = initialState
    /\ timerMap = <<>>
    /\ renderedBots = <<>>
    /\ needsRender = FALSE
    /\ botsChanged = FALSE
    /\ last = NoStep
    /\ nSubmitted = 0
    /\ nBotsAdded = 0
    /\ removedIds = {}
    /\ assignedFor = <<>>

\* addOrder(type): dispatch ADD_ORDER.
addOrder(orderType) ==
    /\ nSubmitted < MaxOrders
    /\ state' = reduceAddOrder(state, orderType)
    /\ needsRender' = TRUE
    /\ botsChanged' = (botsChanged \/ state'.bots # state.bots)
    /\ nSubmitted' = nSubmitted + 1
    /\ last' = [op |-> "addOrder", botId |-> 0,
                orderId |-> state.orderIdCounter, stale |-> FALSE,
                bound |-> bindingsMade(state')]
    /\ assignedFor' = sinceBinding(state')
    /\ UNCHANGED <<timerMap, renderedBots, nBotsAdded, removedIds>>

\* addBot(): dispatch ADD_BOT.
addBot ==
    /\ nBotsAdded < MaxBots
    /\ Len(state.bots) < MaxPool
    /\ state' = reduceAddBot(state)
    /\ needsRender' = TRUE
    /\ botsChanged' = TRUE
    /\ nBotsAdded' = nBotsAdded + 1
    /\ last' = [op |-> "addBot", botId |-> state.botIdCounter,
                orderId |-> 0, stale |-> FALSE,
                bound |-> bindingsMade(state')]
    /\ assignedFor' = sinceBinding(state')
    /\ UNCHANGED <<timerMap, renderedBots, nSubmitted, removedIds>>

\* removeBot(): clear the timer of the last bot of the rendered state.bots,
\* then dispatch REMOVE_BOT.
removeBot ==
    /\ timerMap' = IF Len(renderedBots) > 0
                   THEN clearProcessingTimer(timerMap, renderedBots[Len(renderedBots)].id)
                   ELSE timerMap
    /\ state' = reduceRemoveBot(state)
    /\ needsRender' = (needsRender \/ Len(state.bots) > 0)
    /\ botsChanged' = (botsChanged \/ Len(state.bots) > 0)
    /\ removedIds' = IF Len(state.bots) > 0
                     THEN removedIds \cup {state.bots[Len(state.bots)].id}
                     ELSE removedIds
    /\ last' = IF Len(state.bots) > 0
               THEN [op |-> "removeBot", botId |-> state.bots[Len(state.bots)].id,
                     orderId |-> state.bots[Len(state.bots)].currentOrder,
                     stale |-> FALSE,
                     bound |-> bindingsMade(state')]
               ELSE [op |-> "removeBot", botId |-> 0, orderId |-> 0, stale |-> FALSE,
                     bound |-> bindingsMade(state')]
    /\ assignedFor' = sinceBinding(state')
    /\ UNCHANGED <<renderedBots, nSubmitted, nBotsAdded>>

\* The bot botId exists and its current order is orderId.
holds(bots, botId, orderId) ==
    \E i \in 1..Len(bots) : bots[i].id = botId /\ bots[i].currentOrder = orderId

\* The callback of the timer of bot botId: delete the entry, dispatch
\* COMPLETE_ORDER. A timer fires when its delay has elapsed.
timerFires(botId) ==
    /\ botId \in DOMAIN timerMap
    /\ timerMap[botId].remaining = 0
    /\ timerMap' = [b \in DOMAIN timerMap \ {botId} |-> timerMap[b]]
    /\ state' = reduceCompleteOrder(state, timerMap[botId].orderId, botId)
    /\ needsRender' = TRUE
    /\ botsChanged' = TRUE
    /\ last' = [op |-> "complete", botId |-> botId,
                orderId |-> timerMap[botId].orderId,
                stale |-> ~holds(state.bots, botId, timerMap[botId].orderId),
                bound |-> bindingsMade(state')]
    /\ assignedFor' = sinceBinding(state')
    /\ UNCHANGED <<renderedBots, nSubmitted, nBotsAdded, removedIds>>

\* Commit of a render: the action creators close over the new state.bots and
\* the timer synchronisation effect runs if state.bots changed.
render ==
    /\ needsRender
    /\ renderedBots' = state.bots
    /\ timerMap' = IF botsChanged THEN syncTimers(state.bots, timerMap)
                   ELSE timerMap
    /\ needsRender' = FALSE
    /\ botsChanged' = FALSE
    /\ last' = [op |-> "render", botId |-> 0, orderId |-> 0, stale |-> FALSE,
                bound |-> 0]
    /\ UNCHANGED <<state, nSubmitted, nBotsAdded, removedIds, assignedFor>>

\* Time passes, in a settled state with live timers none of which is due,
\* by TickStep or up to the next timer that is due.
tick ==
    /\ ~needsRender
    /\ DOMAIN timerMap # {}
    /\ \A b \in DOMAIN timerMap : timerMap[b].remaining > 0
    /\ LET elapsed == Min(TickStep,
                          SetMin({timerMap[b].remaining : b \in DOMAIN timerMap}))
       IN  /\ timerMap' = [b \in DOMAIN timerMap |->
                              [timerMap[b] EXCEPT !.remaining = @ - elapsed]]
           /\ assignedFor' = [p \in DOMAIN assignedFor |->
                                 Min(assignedFor[p] + elapsed, Overdue)]
    /\ last' = [op |-> "tick", botId |-> 0, orderId |-> 0, stale |-> FALSE,
                bound |-> 0]
    /\ UNCHANGED <<state, renderedBots, needsRender, botsChanged,
                   nSubmitted, nBotsAdded, removedIds>>

Next ==
    \/ \E t \in OrderTypes : addOrder(t)
    \/ addBot
    \/ removeBot
    \/ \E b \in 1..MaxBots + 1 : timerFires(b)
    \/ render
    \/ tick

Spec == Init /\ [][Next]_vars

----------------------------------------------------------------------------
(* One intent per event: every dispatch is committed by its render before  *)
(* the next intent or timer callback runs, as when each intent is a click  *)
(* of its own. removeBot then always closes over the current state.bots.   *)

EventMaxOrders == 3
EventMaxBots == 4

\* The timer map after the render that commits a dispatch yielding s: the
\* synchronisation effect runs if state.bots changed.
committed(map, s, changed) ==
    IF changed THEN syncTimers(s.bots, map) ELSE map

addOrderEvent(orderType) ==
    /\ nSubmitted < EventMaxOrders
    /\ state' = reduceAddOrder(state, orderType)
    /\ timerMap' = committed(timerMap, state', state'.bots # state.bots)
    /\ renderedBots' = state'.bots
    /\ nSubmitted' = nSubmitted + 1
    /\ last' = [op |-> "addOrder", botId |-> 0,
                orderId |-> state.orderIdCounter, stale |-> FALSE,
                bound |-> bindingsMade(state')]
    /\ assignedFor' = sinceBinding(state')
    /\ UNCHANGED <<needsRender, botsChanged, nBotsAdded, removedIds>>

addBotEvent ==
    /\ nBotsAdded < EventMaxBots
    /\ state' = reduceAddBot(state)
    /\ timerMap' = committed(timerMap, state', TRUE)
    /\ renderedBots' = state'.bots
    /\ nBotsAdded' = nBotsAdded + 1
    /\ last' = [op |-> "addBot", botId |-> state.botIdCounter,
                orderId |-> 0, stale |-> FALSE,
                bound |-> bindingsMade(state')]
    /\ assignedFor' = sinceBinding(state')
    /\ UNCHANGED <<needsRender, botsChanged, nSubmitted, removedIds>>

removeBotEvent ==
    /\ state' = reduceRemoveBot(state)
    /\ timerMap' =
          committed(IF Len(renderedBots) > 0
                    THEN clearProcessingTimer(timerMap,
                                              renderedBots[Len(renderedBots)].id)
                    ELSE timerMap,
                    state', Len(state.bots) > 0)
    /\ renderedBots' = state'.bots
    /\ removedIds' = IF Len(state.bots) > 0
                     THEN removedIds \cup {state.bots[Len(state.bots)].id}
                     ELSE removedIds
    /\ last' = IF Len(state.bots) > 0
               THEN [op |-> "removeBot", botId |-> state.bots[Len(state.bots)].id,
                     orderId |-> state.bots[Len(state.bots)].currentOrder,
                     stale |-> FALSE,
                     bound |-> bindingsMade(state')]
               ELSE [op |-> "removeBot", botId |-> 0, orderId |-> 0, stale |-> FALSE,
                     bound |-> bindingsMade(state')]
    /\ assignedFor' = sinceBinding(state')
    /\ UNCHANGED <<needsRender, botsChanged, nSubmitted, nBotsAdded>>

timerEvent(botId) ==
    /\ botId \in DOMAIN timerMap
    /\ timerMap[botId].remaining = 0
    /\ state' = reduceCompleteOrder(state, timerMap[botId].orderId, botId)
    /\ timerMap' = committed([b \in DOMAIN timerMap \ {botId} |-> timerMap[b]],
                             state', TRUE)
    /\ renderedBots' = state'.bots
    /\ last' = [op |-> "complete", botId |-> botId,
                orderId |-> timerMap[botId].orderId,
                stale |-> ~holds(state.bots, botId, timerMap[botId].orderId),
                bound |-> bindingsMade(state')]
    /\ assignedFor' = sinceBinding(state')
    /\ UNCHANGED <<needsRender, botsChanged, nSubmitted, nBotsAdded, removedIds>>

EventNext ==
    \/ \E t \in OrderTypes : addOrderEvent(t)
    \/ addBotEvent
    \/ removeBotEvent
    \/ \E b \in 1..EventMaxBots : timerEvent(b)
    \/ tick

EventSpec == Init /\ [][EventNext]_vars

\* Time passes and a due timer runs its callback; no intent has to come.
FairEventSpec ==
    /\ EventSpec
    /\ WF_vars(tick)
    /\ \A b \in 1..EventMaxBots : WF_vars(timerEvent(b))

----------------------------------------------------------------------------
(* Derived values                                                          *)

orders == state.orders

bots == state.bots

pendingOrders == SelectSeq(state.orders, LAMBDA o : o.status = "PENDING")

processingOrders == SelectSeq(state.orders, LAMBDA o : o.status = "PROCESSING")

\* Variant of completedOrders that keeps every order that is not PENDING.
completedOrders_NotPending == SelectSeq(state.orders, LAMBDA o : o.status # "PENDING")

completedOrders == SelectSeq(state.orders, LAMBDA o : o.status = "COMPLETE")

Settled == ~needsRender

idOf(records) == {records[i].id : i \in 1..Len(records)}

\* The indices of the bots whose current order is the order orderId.
holders(orderId) == {i \in 1..Len(bots) : bots[i].currentOrder = orderId}

\* The orders that are PENDING or PROCESSING, in sequence order.
liveOrders == SelectSeq(state.orders,
                        LAMBDA o : o.status = "PENDING" \/ o.status = "PROCESSING")

----------------------------------------------------------------------------
(* Claims                                                                  *)

\* C1: work-conserving: in every settled state no bot is IDLE while an order
\* is PENDING, also right after removeBot removed a PROCESSING bot while
\* another bot was IDLE.
C1_WorkConserving ==
    Settled =>
        ~(\E i \in 1..Len(bots) : bots[i].status = "IDLE"
          /\ \E j \in 1..Len(orders) : orders[j].status = "PENDING")

\* C2: ordering: among the PENDING and PROCESSING orders every VIP order is
\* before every NORMAL order, and within a type the identifiers increase.
C2_LiveOrdering ==
    \A i, j \in 1..Len(liveOrders) :
        i < j =>
            /\ ~(liveOrders[i].type = "NORMAL" /\ liveOrders[j].type = "VIP")
            /\ (liveOrders[i].type = liveOrders[j].type
                    => liveOrders[i].id < liveOrders[j].id)

\* C3: a completion delivered for (botId, orderId) when no bot botId exists
\* or that bot's current order is not orderId leaves the orders and the bots
\* unchanged.
C3_StaleCompletionNoOp ==
    [][(last'.op = "complete" /\ last'.stale) => state' = state]_vars

\* C4: when removeBot removes a bot that is PROCESSING order j, j is PENDING
\* right after, and the completion scheduled for the removed bot never marks
\* j COMPLETE.
C4_RemovedBotNeverCompletes ==
    [][/\ (last'.op = "removeBot" /\ last'.orderId # NoOrder)
            => \E i \in 1..Len(orders') :
                  orders'[i].id = last'.orderId /\ orders'[i].status = "PENDING"
       /\ (last'.op = "complete" /\ last'.botId \in removedIds)
            => \A i \in 1..Len(orders) :
                  orders[i].id = last'.orderId => orders'[i] = orders[i]]_vars

\* C5: reference consistency: an order is PROCESSING iff exactly one bot has
\* it as current order, a PENDING or COMPLETE order is the current order of
\* no bot, and no two bots hold the same order.
C5_ReferenceConsistency ==
    /\ \A j \in 1..Len(orders) :
          /\ (orders[j].status = "PROCESSING")
                <=> (Cardinality(holders(orders[j].id)) = 1)
          /\ orders[j].status = "PENDING" => holders(orders[j].id) = {}
          /\ orders[j].status = "COMPLETE" => holders(orders[j].id) = {}
    /\ \A a, b \in 1..Len(bots) :
          (a # b /\ bots[a].currentOrder # NoOrder)
              => bots[a].currentOrder # bots[b].currentOrder

\* C6: a bot is PROCESSING iff its current order is not null, and IDLE iff
\* it is null.
C6_BusyIffCurrentOrder ==
    \A i \in 1..Len(bots) :
        /\ bots[i].status \in {"IDLE", "PROCESSING"}
        /\ (bots[i].status = "PROCESSING") <=> (bots[i].currentOrder # NoOrder)
        /\ (bots[i].status = "IDLE") <=> (bots[i].currentOrder = NoOrder)

C6_Witness ==
    /\ last.op = "complete"
    /\ \E i \in 1..Len(bots) : bots[i].status = "IDLE"
    /\ \E i \in 1..Len(bots) : bots[i].status = "PROCESSING"

\* C7: the Nth addOrder creates the order with identifier N, whatever its type
\* and whatever happened in between, and no two orders share an identifier.
C7_OrderIds ==
    /\ last.op = "addOrder"
          => /\ last.orderId = nSubmitted
             /\ Cardinality({i \in 1..Len(orders) : orders[i].id = nSubmitted}) = 1
    /\ \A i, j \in 1..Len(orders) : i # j => orders[i].id # orders[j].id

C7_Witness ==
    /\ last.op = "addOrder"
    /\ last.orderId = MaxOrders
    /\ removedIds # {}
    /\ \E i \in 1..Len(orders) : orders[i].status = "COMPLETE"

\* C8: the Nth addBot creates the bot with identifier N, and identifiers are
\* never reused: a bot created after bot k was removed has an identifier
\* greater than k, and no bot in the list has a removed identifier.
C8_BotIds ==
    /\ last.op = "addBot"
          => /\ last.botId = nBotsAdded
             /\ last.botId \in idOf(bots)
             /\ \A k \in removedIds : last.botId > k
    /\ \A i \in 1..Len(bots) : bots[i].id \notin removedIds
    /\ \A i, j \in 1..Len(bots) : i # j => bots[i].id # bots[j].id

C8_Witness ==
    /\ last.op = "addBot"
    /\ removedIds # {}
    /\ Len(bots) >= 2

\* C9: with at least one bot, removeBot removes exactly one bot, the one with
\* the highest identifier, whether IDLE or PROCESSING; the bot list is always
\* in strictly increasing identifier order.
C9_RemovesNewest ==
    /\ [](\A i, j \in 1..Len(bots) : i < j => bots[i].id < bots[j].id)
    /\ [][(last'.op = "removeBot" /\ Len(bots) > 0)
            => /\ Len(bots') = Len(bots) - 1
               /\ bots' = SubSeq(bots, 1, Len(bots) - 1)
               /\ last'.botId = bots[Len(bots)].id
               /\ \A i \in 1..Len(bots) : bots[i].id <= last'.botId
               /\ last'.botId \notin idOf(bots')]_vars

C9_Witness ==
    /\ last.op = "removeBot"
    /\ last.orderId # NoOrder
    /\ Len(bots) >= 1
    /\ 1 \in removedIds

C11_RemoveFromEmptyNoOp ==
    [][(last'.op = "removeBot" /\ Len(bots) = 0)
        => /\ state' = state
           /\ timerMap' = timerMap
           /\ needsRender' = needsRender
           /\ removedIds' = removedIds]_vars

C11_Witness ==
    /\ last.op = "removeBot"
    /\ last.botId = 0
    /\ Len(orders) > 0
    /\ Len(renderedBots) > 0
    /\ DOMAIN timerMap # {}

\* C12: whenever the assignment loop binds an order, the order it picks is
\* the highest-priority oldest PENDING one: no order left PENDING is VIP when
\* the picked one is NORMAL, none of the same type has a smaller identifier,
\* and of two orders bound in one pass the one given to the earlier bot
\* comes first in that sense.
C12_PicksHighestPriorityOldest ==
    [][LET bound == {j \in 1..Len(orders') :
                        /\ orders'[j].status = "PROCESSING"
                        /\ ~\E i \in 1..Len(orders) :
                               /\ orders[i].id = orders'[j].id
                               /\ orders[i].status = "PROCESSING"}
           before(b, p) == /\ ~(b.type = "NORMAL" /\ p.type = "VIP")
                           /\ (b.type = p.type => b.id < p.id)
       IN  \A j \in bound :
              /\ \A k \in 1..Len(orders') :
                    orders'[k].status = "PENDING" => before(orders'[j], orders'[k])
              /\ \A k \in bound \ {j} :
                    (\E a, b \in 1..Len(bots') :
                        /\ a < b
                        /\ bots'[a].currentOrder = orders'[j].id
                        /\ bots'[b].currentOrder = orders'[k].id)
                        => before(orders'[j], orders'[k])]_vars

\* C14: assignment is synchronous with the intent: when a bot is IDLE at
\* addOrder, the first IDLE bot is PROCESSING an order right after it; when
\* an order is PENDING at addBot, more orders are PROCESSING right after
\* it; and after either no bot is IDLE while an order is PENDING.
C14_SynchronousAssignment ==
    [][/\ (last'.op = "addOrder" /\ findIdleBot(bots) # 0)
            => /\ bots'[findIdleBot(bots)].status = "PROCESSING"
               /\ \E j \in 1..Len(orders') :
                     /\ orders'[j].id = bots'[findIdleBot(bots)].currentOrder
                     /\ orders'[j].status = "PROCESSING"
       /\ (last'.op = "addBot" /\ findNextPendingOrder(orders) # 0)
            => /\ orders'[findNextPendingOrder(orders)].status = "PROCESSING"
               /\ Len(processingOrders') > Len(processingOrders)
       /\ last'.op \in {"addOrder", "addBot"}
            => ~(findIdleBot(bots') # 0 /\ findNextPendingOrder(orders') # 0)]_vars

C14_Witness ==
    /\ last.op = "addOrder"
    /\ needsRender
    /\ Len(renderedBots) = Len(bots)
    /\ \A i \in 1..Len(renderedBots) : renderedBots[i].status = "IDLE"
    /\ \E i \in 1..Len(bots) :
          bots[i].status = "PROCESSING" /\ bots[i].currentOrder = last.orderId
    /\ \E i \in 1..Len(bots) : bots[i].status = "IDLE"

\* C17: pendingOrders, processingOrders and completedOrders partition the
\* orders: each order is in exactly the one that matches its status, once,
\* and each of the three lists its orders in the order of the sequence.
C17_ProjectionsPartition ==
    LET all == orders
        pending == pendingOrders
        processing == processingOrders
        completed == completedOrders
        in(p, id) == \E k \in 1..Len(p) : p[k].id = id
        \* p lists orders of the sequence, in the order of the sequence
        ordered(p) ==
            /\ \A k \in 1..Len(p) : \E i \in 1..Len(all) : p[k] = all[i]
            /\ \A a, b \in 1..Len(p) :
                  a < b => \E i, j \in 1..Len(all) :
                              i < j /\ all[i].id = p[a].id /\ all[j].id = p[b].id
    IN  /\ \A j \in 1..Len(all) :
              /\ in(pending, all[j].id) <=> (all[j].status = "PENDING")
              /\ in(processing, all[j].id) <=> (all[j].status = "PROCESSING")
              /\ in(completed, all[j].id) <=> (all[j].status = "COMPLETE")
        /\ Len(pending) + Len(processing) + Len(completed) = Len(all)
        /\ ordered(pending)
        /\ ordered(processing)
        /\ ordered(completed)

C17_Witness ==
    /\ Len(orders) = MaxOrders
    /\ Len(completedOrders) >= 1
    /\ Len(processingOrders) >= 1
    /\ orders[1].id > orders[2].id

\* C18: the status of an order changes only PENDING -> PROCESSING,
\* PROCESSING -> COMPLETE or PROCESSING -> PENDING; a COMPLETE order keeps
\* its status.
C18_Lifecycle ==
    [][\A i \in 1..Len(orders) : \A j \in 1..Len(orders') :
          orders[i].id = orders'[j].id
            => \/ orders'[j].status = orders[i].status
               \/ <<orders[i].status, orders'[j].status>>
                     \in {<<"PENDING", "PROCESSING">>,
                          <<"PROCESSING", "COMPLETE">>,
                          <<"PROCESSING", "PENDING">>}]_vars

\* C19: no order is marked COMPLETE twice: a completion dispatched for an
\* order that is already COMPLETE is not applied, it leaves the state as it is.
C19_CompletedOnce ==
    [][(/\ last'.op = "complete"
        /\ \E i \in 1..Len(orders) :
              orders[i].id = last'.orderId /\ orders[i].status = "COMPLETE")
          => state' = state]_vars

C16_TimedCompletion ==
    [][/\ \A i \in 1..Len(orders) : \A j \in 1..Len(orders') :
             (/\ orders[i].id = orders'[j].id
              /\ orders[i].status # "COMPLETE"
              /\ orders'[j].status = "COMPLETE")
                => \E p \in DOMAIN assignedFor :
                      p[2] = orders[i].id /\ assignedFor[p] = PROCESSING_TIME
       /\ last'.op = "tick"
             => \A p \in DOMAIN assignedFor : assignedFor[p] < PROCESSING_TIME]_vars

\* C13: a completion dispatched by the timer of the bot that holds the order
\* makes the order COMPLETE with a completedAt, and leaves the bot PROCESSING
\* the first PENDING order if there was one, IDLE with no current order if not.
C13_ValidCompletion ==
    [][(last'.op = "complete" /\ ~last'.stale)
          => /\ \E j \in 1..Len(orders') :
                   /\ orders'[j].id = last'.orderId
                   /\ orders'[j].status = "COMPLETE"
                   /\ orders'[j].completedAt = SomeDate
             /\ \A i \in 1..Len(bots') :
                   bots'[i].id = last'.botId
                     => IF findNextPendingOrder(orders) # 0
                        THEN /\ bots'[i].status = "PROCESSING"
                             /\ bots'[i].currentOrder
                                   = orders[findNextPendingOrder(orders)].id
                        ELSE /\ bots'[i].status = "IDLE"
                             /\ bots'[i].currentOrder = NoOrder]_vars

\* C15: if from some point on there is at least one bot and no bot is
\* removed, every order that is PENDING is eventually COMPLETE, by the
\* passing of time and the timers alone.
C15_Progress ==
    (<>[](Len(bots) > 0) /\ <>[][last'.op # "removeBot"]_vars)
       => \A id \in 1..EventMaxOrders :
             (\E i \in 1..Len(orders) :
                 orders[i].id = id /\ orders[i].status = "PENDING")
             ~> (\E i \in 1..Len(orders) :
                    orders[i].id = id /\ orders[i].status = "COMPLETE")

\* C21: right after addOrder("NORMAL") the new order is the last of the
\* sequence, behind every order there was, whatever its type and status.
C21_NormalAppended ==
    (/\ last.op = "addOrder"
     /\ \E j \in 1..Len(orders) :
           orders[j].id = last.orderId /\ orders[j].type = "NORMAL")
       => /\ orders[Len(orders)].id = last.orderId
          /\ \A j \in 1..Len(orders) - 1 : orders[j].id # last.orderId

C21_Witness ==
    /\ last.op = "addOrder"
    /\ Len(orders) = 2
    /\ orders[2].id = last.orderId /\ orders[2].type = "NORMAL"
    /\ orders[1].type = "NORMAL" /\ orders[1].status = "COMPLETE"

\* C22: no step reorders the orders: addBot, removeBot and a completion leave
\* the sequence of order ids as it was, and addOrder puts the one new id
\* somewhere into it.
C22_SequenceFrame ==
    [][LET ids == [i \in 1..Len(orders) |-> orders[i].id]
           ids2 == [i \in 1..Len(orders') |-> orders'[i].id]
       IN  IF last'.op = "addOrder"
           THEN \E k \in 1..Len(ids2) :
                   /\ ids2[k] = last'.orderId
                   /\ \A i \in 1..Len(ids) : ids[i] # last'.orderId
                   /\ ids = SubSeq(ids2, 1, k - 1) \o SubSeq(ids2, k + 1, Len(ids2))
           ELSE ids2 = ids]_vars

C22_Witness ==
    /\ last.op = "removeBot"
    /\ Len(orders) = 2
    /\ orders[1].id = last.orderId
    /\ orders[1].type = "NORMAL" /\ orders[1].status = "PENDING"
    /\ orders[2].status = "PENDING"

\* C23: the bindings a step makes go to the IDLE bots with the lowest ids
\* and take the first PENDING orders of the sequence, pairwise in that order:
\* no bot left IDLE has a lower id than a bot just bound, no order left
\* PENDING comes before an order just bound, and of two bots just bound the
\* one with the lower id holds the earlier order.
C23_LowestIdleFirst ==
    [][LET after == bots'
           seq == orders'
           newly == {i \in 1..Len(after) :
                        /\ after[i].status = "PROCESSING"
                        /\ <<after[i].id, after[i].currentOrder>>
                              \notin assignments(state)}
           pos(id) == CHOOSE k \in 1..Len(seq) : seq[k].id = id
       IN  \A i \in newly :
              /\ \E k \in 1..Len(seq) : seq[k].id = after[i].currentOrder
              /\ \A j \in 1..Len(after) :
                    after[j].status = "IDLE" => after[i].id < after[j].id
              /\ \A k \in 1..Len(seq) :
                    seq[k].status = "PENDING" => pos(after[i].currentOrder) < k
              /\ \A j \in newly :
                    after[i].id < after[j].id
                      => pos(after[i].currentOrder) < pos(after[j].currentOrder)]_vars

C23_Witness ==
    /\ last.op = "addBot"
    /\ last.bound = 2
    /\ Len(bots) = 2
    /\ bots[1].currentOrder # bots[2].currentOrder

\* C24: the assignment pass of addOrder, addBot and of a completion makes as
\* many bindings as the smaller of the number of bots that are IDLE when it
\* starts and the number of orders that are PENDING then; after it no bot is
\* IDLE or no order is PENDING, and the pass leaves its own result as it is.
C24_PassFixpoint ==
    [][last'.op \in {"addOrder", "addBot", "complete"}
          => LET idle == Cardinality(
                            {i \in 1..Len(bots) :
                                \/ bots[i].status = "IDLE"
                                \/ last'.op = "complete" /\ bots[i].id = last'.botId})
                         + (IF last'.op = "addBot" THEN 1 ELSE 0)
                 pending == Cardinality(
                               {i \in 1..Len(orders) :
                                   /\ orders[i].status = "PENDING"
                                   /\ ~(last'.op = "complete"
                                        /\ orders[i].id = last'.orderId)})
                            + (IF last'.op = "addOrder" THEN 1 ELSE 0)
             IN  /\ last'.bound = Min(idle, pending)
                 /\ findIdleBot(bots') = 0 \/ findNextPendingOrder(orders') = 0
                 /\ autoAssignOrders(state') = state']_vars

C24_Witness ==
    /\ last.bound = 2
    /\ Len(completedOrders) = 1
    /\ Len(pendingOrders) = 0
    /\ Cardinality(removedIds) = 2

\* C25: addOrder does not preempt: a bot that is PROCESSING keeps its order,
\* an order that is PROCESSING stays PROCESSING, and when every bot is
\* PROCESSING addOrder only adds the new order, as PENDING.
C25_NoPreemption ==
    [][last'.op = "addOrder"
          => /\ \A i \in 1..Len(bots) :
                   bots[i].status = "PROCESSING"
                     => i <= Len(bots') /\ bots'[i] = bots[i]
             /\ \A i \in 1..Len(orders) :
                   orders[i].status = "PROCESSING"
                     => \E j \in 1..Len(orders') :
                           orders'[j].id = orders[i].id
                              /\ orders'[j].status = "PROCESSING"
             /\ (\A i \in 1..Len(bots) : bots[i].status = "PROCESSING")
                   => /\ bots' = bots
                      /\ state'.botIdCounter = state.botIdCounter
                      /\ Len(orders') = Len(orders) + 1
                      /\ \A i \in 1..Len(orders) :
                            \E j \in 1..Len(orders') : orders'[j] = orders[i]
                      /\ \E j \in 1..Len(orders') :
                            /\ orders'[j].id = last'.orderId
                            /\ orders'[j].status = "PENDING"]_vars

C25_Witness ==
    /\ last.op = "addOrder"
    /\ Len(bots) > 0
    /\ \A i \in 1..Len(bots) :
          /\ bots[i].status = "PROCESSING"
          /\ \E j \in 1..Len(orders) :
                orders[j].id = bots[i].currentOrder /\ orders[j].type = "NORMAL"
    /\ orders[1].id = last.orderId
    /\ orders[1].type = "VIP" /\ orders[1].status = "PENDING"

C27_NoOrderLost ==
    /\ Len(orders) = nSubmitted
    /\ \A id \in 1..nSubmitted :
          Cardinality({i \in 1..Len(orders) : orders[i].id = id}) = 1

C27_Witness ==
    /\ nSubmitted = MaxOrders
    /\ last.op = "removeBot" /\ last.orderId # 0
    /\ Len(completedOrders) >= 1
    /\ \E i \in 1..Len(orders) :
          orders[i].id = last.orderId /\ orders[i].status = "PENDING"

\* C28: an order has a completedAt exactly when its status is COMPLETE.
C28_CompletedAtIffComplete ==
    \A i \in 1..Len(orders) :
       (orders[i].completedAt # NoDate) <=> (orders[i].status = "COMPLETE")

\* C29: no NORMAL order, whatever its status, comes before a VIP order that
\* is PENDING or PROCESSING; right after addOrder("VIP") every NORMAL order
\* comes after the new order.
C29_NormalAfterLiveVip ==
    /\ \A i, j \in 1..Len(orders) :
          (/\ orders[i].type = "NORMAL"
           /\ orders[j].type = "VIP"
           /\ orders[j].status \in {"PENDING", "PROCESSING"})
             => j < i
    /\ last.op = "addOrder"
          => \A i, j \in 1..Len(orders) :
                (/\ orders[j].id = last.orderId /\ orders[j].type = "VIP"
                 /\ orders[i].type = "NORMAL")
                   => j < i

C29_Witness ==
    /\ last.op = "addOrder"
    /\ Len(orders) = 2
    /\ orders[1].id = last.orderId /\ orders[1].type = "VIP"
    /\ orders[2].type = "NORMAL" /\ orders[2].status = "COMPLETE"

\* C30: in a settled state the live timers are those of the PROCESSING bots
\* of the list: a bot has a timer exactly when it is in the list and
\* PROCESSING, and the timer is for the order the bot holds.
C30_TimersReconciled ==
    Settled
       => /\ \A b \in DOMAIN timerMap :
                \E i \in 1..Len(bots) :
                   /\ bots[i].id = b
                   /\ bots[i].status = "PROCESSING"
                   /\ bots[i].currentOrder = timerMap[b].orderId
          /\ \A i \in 1..Len(bots) :
                bots[i].status = "PROCESSING" => bots[i].id \in DOMAIN timerMap

\* C31: no timer is live for a bot that has been removed from the list,
\* however many addBot and removeBot calls come before a render.
C31_NoLeakedTimer ==
    \A b \in DOMAIN timerMap :
       b \notin removedIds /\ \E i \in 1..Len(bots) : bots[i].id = b

\* C32: in a settled state, addBot followed at once by removeBot gives back
\* the orders, with their places and statuses, and the bots as they were;
\* only botIdCounter has gone up by one.
C32_AddRemoveRoundTrip ==
    Settled
       => \A t \in {reduceRemoveBot(reduceAddBot(state))} :
             /\ t.orders = state.orders
             /\ t.bots = state.bots
             /\ t.orderIdCounter = state.orderIdCounter
             /\ t.botIdCounter = state.botIdCounter + 1

====
